---- MODULE Spec2Model ----
(***************************************************************************)
(* Thrombophilia advisor: the recommendation catalog builder               *)
(* (generate_complete_data.py) and the decision verifier                   *)
(* (verify_calculations.py).                                               *)
(*                                                                         *)
(* Numbers.  The source computes in Python floats on decimal literals.     *)
(* Here every decimal is an integer count of a fixed unit and every        *)
(* threshold is an exact fraction, so comparisons are decided exactly:     *)
(*   pVTE, H            in units of 1/ProbUnit                             *)
(*   Tp                 in units of 1/TpUnit                               *)
(*   RRt, RRrx, RRbleed in units of 1/PctUnit                              *)
(* Products of two fractions exceed 32 bits for several catalog records,   *)
(* so numerators and denominators are little-endian digit sequences in     *)
(* base Base.                                                              *)
(*                                                                         *)
(* Strings.  An id or a cell text is the sequence of its characters, so    *)
(* that +, startswith, in and len are what they are in Python.             *)
(***************************************************************************)
EXTENDS Integers, Sequences, FiniteSets, TLC

VARIABLES
    \* --- calculate_thresholds / determine_decision called on their own
    dpc,            \* "start", "thr", "raised", "done"
    params,         \* the params dict
    is_reversed,    \* the is_reversed argument
    pVTE,           \* the pVTE argument
    thresholds,     \* {'Ptt': .., 'Pt': ..}
    decision,       \* 'NoRx' / 'Test' / 'Rx'
    \* --- files
    xlsx,           \* the Excel workbook, its Agreement sheet
    data_js,        \* ../data.js
    json_file,      \* complete_recommendations.json
    report_html,    \* verification_report.html
    chart_png,      \* accuracy_chart.png
    \* --- a run of generate_complete_data.py
    bpc,            \* position in the script
    ash_decisions,
    recommendations,
    bout,           \* what the script printed about count and missing decisions
    \* --- a run of verify_calculations.py main()
    vpc,            \* position in main
    excel_data,
    js_data,
    results,
    total,
    matches,
    vout            \* the load errors main printed

dvars == <<dpc, params, is_reversed, pVTE, thresholds, decision>>

files == <<xlsx, data_js, json_file, report_html, chart_png>>

bvars == <<bpc, ash_decisions, recommendations, bout>>

vvars == <<vpc, excel_data, js_data, results, total, matches, vout>>

vars == <<dvars, files, bvars, vvars>>

None == "None"

\* an argument or result that is not there
NoDict == [none |-> TRUE]

(***************************************************************************)
(* Exact arithmetic                                                        *)
(***************************************************************************)
Base == 10^4
ProbUnit == 10^5
TpUnit == 10^4
PctUnit == 10^2

RECURSIVE Big(_)
Big(n) == IF n = 0 THEN <<>> ELSE <<n % Base>> \o Big(n \div Base)

RECURSIVE BigAddC(_, _, _)
BigAddC(a, b, c) ==
    IF a = <<>> /\ b = <<>>
    THEN (IF c = 0 THEN <<>> ELSE <<c>>)
    ELSE LET x == IF a = <<>> THEN 0 ELSE Head(a)
             y == IF b = <<>> THEN 0 ELSE Head(b)
             s == x + y + c
         IN  <<s % Base>> \o BigAddC(IF a = <<>> THEN a ELSE Tail(a),
                                     IF b = <<>> THEN b ELSE Tail(b),
                                     s \div Base)

BigAdd(a, b) == BigAddC(a, b, 0)

RECURSIVE BigScaleC(_, _, _)
BigScaleC(a, k, c) ==
    IF a = <<>>
    THEN Big(c)
    ELSE LET s == Head(a) * k + c
         IN  <<s % Base>> \o BigScaleC(Tail(a), k, s \div Base)

BigScale(a, k) == IF k = 0 THEN <<>> ELSE BigScaleC(a, k, 0)

RECURSIVE BigMul(_, _)
BigMul(a, b) ==
    IF a = <<>> \/ b = <<>>
    THEN <<>>
    ELSE LET rest == BigMul(a, Tail(b))
         IN  BigAdd(BigScale(a, Head(b)),
                    IF rest = <<>> THEN <<>> ELSE <<0>> \o rest)

BigLess(a, b) ==
    IF Len(a) # Len(b)
    THEN Len(a) < Len(b)
    ELSE \E i \in 1..Len(a) :
            /\ a[i] < b[i]
            /\ \A j \in (i+1)..Len(a) : a[j] = b[j]

Abs(x) == IF x < 0 THEN -x ELSE x
Sgn(x) == IF x < 0 THEN -1 ELSE IF x = 0 THEN 0 ELSE 1

\* the fraction a / b of two machine integers, b # 0
Frac(a, b) == [s |-> Sgn(a) * Sgn(b), n |-> Big(Abs(a)), d |-> Big(Abs(b))]

RatMul(x, y) == [s |-> x.s * y.s, n |-> BigMul(x.n, y.n), d |-> BigMul(x.d, y.d)]

\* x < y
RatLess(x, y) ==
    IF x.s # y.s THEN x.s < y.s
    ELSE IF x.s = 0 THEN FALSE
    ELSE IF x.s = 1 THEN BigLess(BigMul(x.n, y.d), BigMul(y.n, x.d))
    ELSE BigLess(BigMul(y.n, x.d), BigMul(x.n, y.d))

RatLeq(x, y) == ~RatLess(y, x)

\* a pVTE given in units of 1/ProbUnit
Prob(p) == Frac(p, ProbUnit)

\* the characters of the string literals the sources use
Chars(w) ==
    CASE w = "R1" -> <<"R", "1">>
      [] w = "R2" -> <<"R", "2">>
      [] w = "R3" -> <<"R", "3">>
      [] w = "R4" -> <<"R", "4">>
      [] w = "R5" -> <<"R", "5">>
      [] w = "R6" -> <<"R", "6">>
      [] w = "R7" -> <<"R", "7">>
      [] w = "R8" -> <<"R", "8">>
      [] w = "R9" -> <<"R", "9">>
      [] w = "R10" -> <<"R", "1", "0">>
      [] w = "R11a" -> <<"R", "1", "1", "a">>
      [] w = "R11b" -> <<"R", "1", "1", "b">>
      [] w = "R11c" -> <<"R", "1", "1", "c">>
      [] w = "R11d" -> <<"R", "1", "1", "d">>
      [] w = "R11e" -> <<"R", "1", "1", "e">>
      [] w = "R12a" -> <<"R", "1", "2", "a">>
      [] w = "R12b" -> <<"R", "1", "2", "b">>
      [] w = "R12c" -> <<"R", "1", "2", "c">>
      [] w = "R12d" -> <<"R", "1", "2", "d">>
      [] w = "R12e" -> <<"R", "1", "2", "e">>
      [] w = "R13" -> <<"R", "1", "3">>
      [] w = "R14a" -> <<"R", "1", "4", "a">>
      [] w = "R14b" -> <<"R", "1", "4", "b">>
      [] w = "R14c" -> <<"R", "1", "4", "c">>
      [] w = "R14d" -> <<"R", "1", "4", "d">>
      [] w = "R14e" -> <<"R", "1", "4", "e">>
      [] w = "R15" -> <<"R", "1", "5">>
      [] w = "R16a" -> <<"R", "1", "6", "a">>
      [] w = "R16b" -> <<"R", "1", "6", "b">>
      [] w = "R17" -> <<"R", "1", "7">>
      [] w = "R18a" -> <<"R", "1", "8", "a">>
      [] w = "R18b" -> <<"R", "1", "8", "b">>
      [] w = "R19a" -> <<"R", "1", "9", "a">>
      [] w = "R19b" -> <<"R", "1", "9", "b">>
      [] w = "R19c" -> <<"R", "1", "9", "c">>
      [] w = "R19d" -> <<"R", "1", "9", "d">>
      [] w = "R19e" -> <<"R", "1", "9", "e">>
      [] w = "R20a" -> <<"R", "2", "0", "a">>
      [] w = "R20b" -> <<"R", "2", "0", "b">>
      [] w = "R20c" -> <<"R", "2", "0", "c">>
      [] w = "R20d" -> <<"R", "2", "0", "d">>
      [] w = "R20e" -> <<"R", "2", "0", "e">>
      [] w = "R20f" -> <<"R", "2", "0", "f">>
      [] w = "R20g" -> <<"R", "2", "0", "g">>
      [] w = "R20h" -> <<"R", "2", "0", "h">>
      [] w = "R20i" -> <<"R", "2", "0", "i">>
      [] w = "R20j" -> <<"R", "2", "0", "j">>
      [] w = "R21a" -> <<"R", "2", "1", "a">>
      [] w = "R21b" -> <<"R", "2", "1", "b">>
      [] w = "R21c" -> <<"R", "2", "1", "c">>
      [] w = "R21d" -> <<"R", "2", "1", "d">>
      [] w = "R21e" -> <<"R", "2", "1", "e">>
      [] w = "R22a" -> <<"R", "2", "2", "a">>
      [] w = "R22b" -> <<"R", "2", "2", "b">>
      [] w = "R22c" -> <<"R", "2", "2", "c">>
      [] w = "R22d" -> <<"R", "2", "2", "d">>
      [] w = "R22e" -> <<"R", "2", "2", "e">>
      [] w = "R23a" -> <<"R", "2", "3", "a">>
      [] w = "R23b" -> <<"R", "2", "3", "b">>
      [] w = "low" -> <<"l", "o", "w">>
      [] w = "high" -> <<"h", "i", "g", "h">>
      [] w = " low" -> <<" ", "l", "o", "w">>
      [] w = " high" -> <<" ", "h", "i", "g", "h">>
      [] w = "Cases" -> <<"C", "a", "s", "e", "s">>
      [] w = "Total: 69" -> <<"T", "o", "t", "a", "l", ":", " ", "6", "9">>
      [] w = "n" -> <<"n">>
      [] w = "%" -> <<"%">>
      [] w = "CASE" -> <<"C", "A", "S", "E">>
      [] w = "nan" -> <<"n", "a", "n">>
      [] w = "R1-R10" -> <<"R", "1", "-", "R", "1", "0">>
      [] w = "R11-R14" -> <<"R", "1", "1", "-", "R", "1", "4">>
      [] w = "R15-R20" -> <<"R", "1", "5", "-", "R", "2", "0">>
      [] w = "R21-R23" -> <<"R", "2", "1", "-", "R", "2", "3">>
      [] w = "R1 low" -> <<"R", "1", " ", "l", "o", "w">>
      [] w = "R1 high" -> <<"R", "1", " ", "h", "i", "g", "h">>
      [] w = "R2 low" -> <<"R", "2", " ", "l", "o", "w">>
      [] w = "R11" -> <<"R", "1", "1">>
      [] w = "R12" -> <<"R", "1", "2">>
      [] w = "R14" -> <<"R", "1", "4">>
      [] w = "R16" -> <<"R", "1", "6">>
      [] w = "R18" -> <<"R", "1", "8">>
      [] w = "R19" -> <<"R", "1", "9">>
      [] w = "R20" -> <<"R", "2", "0">>
      [] w = "R21" -> <<"R", "2", "1">>
      [] w = "R22" -> <<"R", "2", "2">>
      [] w = "R23" -> <<"R", "2", "3">>

(***************************************************************************)
(* generate_complete_data.py: the literal tables                           *)
(* (description texts are carried verbatim by the source and read by no    *)
(* operation; they are left out)                                           *)
(***************************************************************************)
r1_10_base ==
  << [base_id |-> "R1", pVTE |-> 10000, Tp |-> 3800, RRt |-> 165, RRrx |-> 15, RRbleed |-> 217,
      category |-> "Symptomatic VTE"],
     [base_id |-> "R2", pVTE |-> 1000, Tp |-> 3800, RRt |-> 165, RRrx |-> 15, RRbleed |-> 217,
      category |-> "Symptomatic VTE"],
     [base_id |-> "R3", pVTE |-> 5000, Tp |-> 3800, RRt |-> 165, RRrx |-> 15, RRbleed |-> 217,
      category |-> "Symptomatic VTE"],
     [base_id |-> "R4", pVTE |-> 5000, Tp |-> 3800, RRt |-> 165, RRrx |-> 15, RRbleed |-> 217,
      category |-> "Symptomatic VTE"],
     [base_id |-> "R5", pVTE |-> 5000, Tp |-> 3800, RRt |-> 165, RRrx |-> 15, RRbleed |-> 217,
      category |-> "Symptomatic VTE"],
     [base_id |-> "R6", pVTE |-> 7500, Tp |-> 3800, RRt |-> 165, RRrx |-> 15, RRbleed |-> 217,
      category |-> "Symptomatic VTE"],
     [base_id |-> "R7", pVTE |-> 3800, Tp |-> 4360, RRt |-> 165, RRrx |-> 15, RRbleed |-> 217,
      category |-> "VTE in Unusual Sites"],
     [base_id |-> "R8", pVTE |-> 3800, Tp |-> 4360, RRt |-> 165, RRrx |-> 15, RRbleed |-> 217,
      category |-> "VTE in Unusual Sites"],
     [base_id |-> "R9", pVTE |-> 5000, Tp |-> 4160, RRt |-> 165, RRrx |-> 15, RRbleed |-> 217,
      category |-> "VTE in Unusual Sites"],
     [base_id |-> "R10", pVTE |-> 5000, Tp |-> 4160, RRt |-> 165, RRrx |-> 15, RRbleed |-> 217,
      category |-> "VTE in Unusual Sites"] >>

r11_14_data ==
  << <<"R11a", 1500, 5000, 271, 54, 400, 209>>,
     <<"R11b", 1500, 5000, 235, 54, 400, 209>>,
     <<"R11c", 5000, 5000, 1217, 54, 400, 209>>,
     <<"R11d", 5000, 5000, 747, 54, 400, 209>>,
     <<"R11e", 5000, 5000, 598, 54, 400, 209>>,
     <<"R12a", 1500, 5120, 282, 54, 400, 209>>,
     <<"R12b", 1500, 5240, 255, 54, 400, 209>>,
     <<"R12c", 5000, 5330, 1176, 54, 400, 209>>,
     <<"R12d", 5000, 5330, 736, 54, 400, 209>>,
     <<"R12e", 5000, 5340, 598, 54, 400, 209>>,
     <<"R13", 1200, 1420, 389, 54, 400, 209>>,
     <<"R14a", 750, 5000, 271, 54, 400, 209>>,
     <<"R14b", 750, 5000, 254, 54, 400, 209>>,
     <<"R14c", 2500, 5000, 1217, 54, 400, 209>>,
     <<"R14d", 2500, 5000, 747, 54, 400, 209>>,
     <<"R14e", 2500, 5000, 598, 54, 400, 209>> >>

r15_20_data ==
  << <<"R15", 35, 685, 589, 350, 5950>>,
     <<"R16a", 200, 685, 180, 222, 10770>>,
     <<"R16b", 200, 685, 180, 428, 15590>>,
     <<"R17", 120, 1420, 387, 350, 5950>>,
     <<"R18a", 300, 1420, 208, 222, 10770>>,
     <<"R18b", 300, 1420, 208, 428, 15590>>,
     <<"R19a", 250, 5000, 271, 350, 5950>>,
     <<"R19b", 250, 5000, 235, 350, 5950>>,
     <<"R19c", 840, 5000, 1207, 350, 5950>>,
     <<"R19d", 630, 5000, 724, 350, 5950>>,
     <<"R19e", 490, 5000, 598, 350, 5950>>,
     <<"R20a", 250, 5000, 260, 222, 10770>>,
     <<"R20b", 250, 5000, 260, 428, 15590>>,
     <<"R20c", 250, 5000, 80, 222, 10770>>,
     <<"R20d", 250, 5000, 80, 428, 15590>>,
     <<"R20e", 840, 5000, 170, 222, 10770>>,
     <<"R20f", 840, 5000, 170, 428, 15590>>,
     <<"R20g", 630, 5000, 180, 222, 10770>>,
     <<"R20h", 630, 5000, 180, 428, 15590>>,
     <<"R20i", 490, 5000, 190, 222, 10770>>,
     <<"R20j", 490, 5000, 190, 428, 15590>> >>

r21_23_data ==
  << <<"R21a", 3750, 2500, 2096, 41, 634, 321>>,
     <<"R21b", 1800, 5000, 1051, 41, 634, 321>>,
     <<"R21c", 400, 5000, 604, 41, 634, 321>>,
     <<"R21d", 800, 5000, 503, 41, 634, 321>>,
     <<"R21e", 2025, 2500, 936, 41, 634, 321>>,
     <<"R22a", 3750, 2500, 2096, 41, 846, 338>>,
     <<"R22b", 1800, 5000, 1051, 41, 846, 338>>,
     <<"R22c", 400, 5000, 604, 41, 846, 338>>,
     <<"R22d", 800, 5000, 503, 41, 846, 338>>,
     <<"R22e", 2025, 2500, 936, 41, 846, 338>>,
     <<"R23a", 5000, 1420, 328, 61, 360, 165>>,
     <<"R23b", 6600, 1420, 328, 61, 800, 165>> >>

\* ash_decisions.get(rec_id, 'Unknown'); the dict is a function on ids
AshLookup(ashd, rec_id) ==
    IF rec_id \in DOMAIN ashd THEN ashd[rec_id] ELSE "Unknown"

\* the R1-R10 loop with the finer tier up to and including 0.1
R1R10Records_InclusiveGate(ashd) ==
    [k \in 1..(2 * Len(r1_10_base)) |->
        LET p          == r1_10_base[(k + 1) \div 2]
            risk_level == IF k % 2 = 1 THEN "low" ELSE "high"
            rec_id     == Chars(p.base_id) \o <<" ">> \o Chars(risk_level)
            H          == IF risk_level = "low" THEN 500 ELSE 1500
        IN  [id |-> rec_id, pVTE |-> p.pVTE, Tp |-> p.Tp, RRt |-> p.RRt,
             RRrx |-> p.RRrx, H_low |-> H, H_high |-> H, RRbleed |-> p.RRbleed,
             decimals |-> IF p.pVTE <= ProbUnit \div 10 THEN 2 ELSE 1,
             ashDecision |-> AshLookup(ashd, rec_id),
             category |-> p.category, group |-> "R1-R10",
             bleedingRisk |-> risk_level]]

\* the R1-R10 loop with the base id alone as rec_id
R1R10Records_NoSuffix(ashd) ==
    [k \in 1..(2 * Len(r1_10_base)) |->
        LET p          == r1_10_base[(k + 1) \div 2]
            risk_level == IF k % 2 = 1 THEN "low" ELSE "high"
            rec_id     == Chars(p.base_id)
            H          == IF risk_level = "low" THEN 500 ELSE 1500
        IN  [id |-> rec_id, pVTE |-> p.pVTE, Tp |-> p.Tp, RRt |-> p.RRt,
             RRrx |-> p.RRrx, H_low |-> H, H_high |-> H, RRbleed |-> p.RRbleed,
             decimals |-> IF p.pVTE < ProbUnit \div 10 THEN 2 ELSE 1,
             ashDecision |-> AshLookup(ashd, rec_id),
             category |-> p.category, group |-> "R1-R10",
             bleedingRisk |-> risk_level]]

\* the R1-R10 loop without the 'high' pass
R1R10Records_LowOnly(ashd) ==
    [k \in 1..Len(r1_10_base) |->
        LET p      == r1_10_base[k]
            rec_id == Chars(p.base_id) \o <<" ">> \o Chars("low")
        IN  [id |-> rec_id, pVTE |-> p.pVTE, Tp |-> p.Tp, RRt |-> p.RRt,
             RRrx |-> p.RRrx, H_low |-> 500, H_high |-> 500, RRbleed |-> p.RRbleed,
             decimals |-> IF p.pVTE < ProbUnit \div 10 THEN 2 ELSE 1,
             ashDecision |-> AshLookup(ashd, rec_id),
             category |-> p.category, group |-> "R1-R10",
             bleedingRisk |-> "low"]]

\* the loop over r1_10_base.items() and ['low', 'high']
R1R10Records(ashd) ==
    [k \in 1..(2 * Len(r1_10_base)) |->
        LET p          == r1_10_base[(k + 1) \div 2]
            risk_level == IF k % 2 = 1 THEN "low" ELSE "high"
            rec_id     == Chars(p.base_id) \o <<" ">> \o Chars(risk_level)
            H          == IF risk_level = "low" THEN 500 ELSE 1500
        IN  [id |-> rec_id, pVTE |-> p.pVTE, Tp |-> p.Tp, RRt |-> p.RRt,
             RRrx |-> p.RRrx, H_low |-> H, H_high |-> H, RRbleed |-> p.RRbleed,
             decimals |-> IF p.pVTE < ProbUnit \div 10 THEN 2 ELSE 1,
             ashDecision |-> AshLookup(ashd, rec_id),
             category |-> p.category, group |-> "R1-R10",
             bleedingRisk |-> risk_level]]

R11R14Records(ashd) ==
    [k \in 1..Len(r11_14_data) |->
        LET t == r11_14_data[k]
        IN  [id |-> Chars(t[1]), pVTE |-> t[2], Tp |-> t[3], RRt |-> t[4],
             RRrx |-> t[5], H_low |-> t[6], H_high |-> t[6], RRbleed |-> t[7],
             decimals |-> IF t[2] < ProbUnit \div 100 THEN 3 ELSE 2,
             ashDecision |-> AshLookup(ashd, Chars(t[1])),
             category |-> "Asymptomatic with Family History",
             group |-> "R11-R14"]]

R15R20Records(ashd) ==
    [k \in 1..Len(r15_20_data) |->
        LET t == r15_20_data[k]
        IN  [id |-> Chars(t[1]), pVTE |-> t[2], Tp |-> t[3], RRt |-> t[4],
             RRrx |-> t[5], H_low |-> t[6], H_high |-> t[6], RRbleed |-> PctUnit,
             decimals |-> 4,
             ashDecision |-> AshLookup(ashd, Chars(t[1])),
             category |-> "Women Considering COC/HRT",
             group |-> "R15-R20", isReversed |-> TRUE]]

R21R23Records(ashd) ==
    [k \in 1..Len(r21_23_data) |->
        LET t == r21_23_data[k]
        IN  [id |-> Chars(t[1]), pVTE |-> t[2], Tp |-> t[3], RRt |-> t[4],
             RRrx |-> t[5], H_low |-> t[6], H_high |-> t[6], RRbleed |-> t[7],
             decimals |-> IF t[2] < ProbUnit \div 100 THEN 4 ELSE 3,
             ashDecision |-> AshLookup(ashd, Chars(t[1])),
             category |-> "Women Planning Pregnancy",
             group |-> "R21-R23"]]

\* the isReversed flag of a record (the key exists in R15-R20 records only)
IsReversed(rec) == "isReversed" \in DOMAIN rec /\ rec.isReversed

(***************************************************************************)
(* verify_calculations.py: calculate_thresholds, determine_decision        *)
(***************************************************************************)
\* params.get(key, default)
Get(p, key, default) == IF key \in DOMAIN p THEN p[key] ELSE default

\* an uncaught ZeroDivisionError, in place of the returned value
ZeroDivisionError == [raised |-> "ZeroDivisionError"]

Raised(v) == "raised" \in DOMAIN v

\* calculate_thresholds with the standard model's division by RRt applied to
\* the reversed model as well
calculate_thresholds_RevDividesByRRt(p, reversed) ==
    LET RV      == Get(p, "RV", 1)
        RRbleed == Get(p, "RRbleed", 217)
        H       == Get(p, "H", 500)
        RRrx    == Get(p, "RRrx", 15)
        Tp      == Get(p, "Tp", 3800)
        RRt     == Get(p, "RRt", 165)
        w       == RRt * Tp + PctUnit * (TpUnit - Tp)
    IN  IF reversed
        THEN IF RRrx - PctUnit = 0 \/ RRt = 0
             THEN ZeroDivisionError
             ELSE LET Pt == Frac(RV * H * PctUnit, ProbUnit * (RRrx - PctUnit))
                  IN  [Ptt |-> RatMul(Pt, Frac(w, TpUnit * RRt)), Pt |-> Pt]
        ELSE IF PctUnit - RRrx = 0 \/ RRt = 0
             THEN ZeroDivisionError
             ELSE LET Pt == Frac(RV * (RRbleed - PctUnit) * H,
                                 ProbUnit * (PctUnit - RRrx))
                  IN  [Ptt |-> RatMul(Frac(w, TpUnit * RRt), Pt), Pt |-> Pt]

\* calculate_thresholds with the division by RRt left out of the standard model
calculate_thresholds_StdNoDivision(p, reversed) ==
    LET RV      == Get(p, "RV", 1)
        RRbleed == Get(p, "RRbleed", 217)
        H       == Get(p, "H", 500)
        RRrx    == Get(p, "RRrx", 15)
        Tp      == Get(p, "Tp", 3800)
        RRt     == Get(p, "RRt", 165)
        w       == RRt * Tp + PctUnit * (TpUnit - Tp)
    IN  IF reversed
        THEN IF RRrx - PctUnit = 0
             THEN ZeroDivisionError
             ELSE LET Pt == Frac(RV * H * PctUnit, ProbUnit * (RRrx - PctUnit))
                  IN  [Ptt |-> RatMul(Pt, Frac(w, PctUnit * TpUnit)), Pt |-> Pt]
        ELSE IF PctUnit - RRrx = 0
             THEN ZeroDivisionError
             ELSE LET Pt == Frac(RV * (RRbleed - PctUnit) * H,
                                 ProbUnit * (PctUnit - RRrx))
                  IN  [Ptt |-> RatMul(Frac(w, PctUnit * TpUnit), Pt), Pt |-> Pt]

calculate_thresholds(p, reversed) ==
    LET RV      == Get(p, "RV", 1)
        RRbleed == Get(p, "RRbleed", 217)
        H       == Get(p, "H", 500)
        RRrx    == Get(p, "RRrx", 15)
        Tp      == Get(p, "Tp", 3800)
        RRt     == Get(p, "RRt", 165)
        \* RRt * Tp + (1 - Tp), in units of 1/(PctUnit * TpUnit)
        w       == RRt * Tp + PctUnit * (TpUnit - Tp)
    IN  IF reversed
        THEN IF RRrx - PctUnit = 0
             THEN ZeroDivisionError
             ELSE LET Pt == Frac(RV * H * PctUnit, ProbUnit * (RRrx - PctUnit))
                  IN  [Ptt |-> RatMul(Pt, Frac(w, PctUnit * TpUnit)), Pt |-> Pt]
        ELSE IF PctUnit - RRrx = 0 \/ RRt = 0
             THEN ZeroDivisionError
             ELSE LET Pt == Frac(RV * (RRbleed - PctUnit) * H,
                                 ProbUnit * (PctUnit - RRrx))
                  IN  [Ptt |-> RatMul(Frac(w, TpUnit * RRt), Pt), Pt |-> Pt]

\* determine_decision with the standard branch testing pVTE > Pt first
determine_decision_StdRxFirst(pv, thr, reversed) ==
    LET Ptt == thr.Ptt
        Pt  == thr.Pt
    IN  IF reversed
        THEN IF RatLess(pv, Pt) THEN "Rx"
             ELSE IF RatLess(Ptt, pv) THEN "NoRx"
             ELSE "Test"
        ELSE IF RatLess(Pt, pv) THEN "Rx"
             ELSE IF RatLess(pv, Ptt) THEN "NoRx"
             ELSE "Test"

\* determine_decision with the reversed branch testing pVTE > Ptt first
determine_decision_RevNoRxFirst(pv, thr, reversed) ==
    LET Ptt == thr.Ptt
        Pt  == thr.Pt
    IN  IF reversed
        THEN IF RatLess(Ptt, pv) THEN "NoRx"
             ELSE IF RatLess(pv, Pt) THEN "Rx"
             ELSE "Test"
        ELSE IF RatLess(pv, Ptt) THEN "NoRx"
             ELSE IF RatLess(Pt, pv) THEN "Rx"
             ELSE "Test"

determine_decision(pv, thr, reversed) ==
    LET Ptt == thr.Ptt
        Pt  == thr.Pt
    IN  IF reversed
        THEN IF RatLess(pv, Pt) THEN "Rx"
             ELSE IF RatLess(Ptt, pv) THEN "NoRx"
             ELSE "Test"
        ELSE IF RatLess(pv, Ptt) THEN "NoRx"
             ELSE IF RatLess(Pt, pv) THEN "Rx"
             ELSE "Test"

(***************************************************************************)
(* The two functions called on their own: arguments drawn from the catalog *)
(* and from a grid of parameter values                                     *)
(***************************************************************************)
MaxP == 20
MaxThr == 4
PStep == ProbUnit \div 200
ThrStep == 2 * PStep

NoAsh == [i \in {} |-> "Unknown"]

\* the params dict of a catalog record
ParamsOf(rec) ==
    [RRbleed |-> rec.RRbleed, H |-> rec.H_low, RRrx |-> rec.RRrx,
     Tp |-> rec.Tp, RRt |-> rec.RRt]

Range(s) == {s[i] : i \in DOMAIN s}

StandardRecords ==
    Range(R1R10Records(NoAsh)) \cup Range(R11R14Records(NoAsh))
        \cup Range(R21R23Records(NoAsh))

ReversedRecords == Range(R15R20Records(NoAsh))

GridParams ==
    [RRbleed : {100, 217}, H : {500, 5950}, RRrx : {15, 54, 100, 222, 350},
     Tp : {0, 3800, 10000}, RRt : {80, 100, 165, 589}]

\* dicts that leave keys to their defaults, and one that sets RV
SparseParams ==
    { [i \in {} |-> 0], [RRt |-> 80], [RV |-> 2, RRrx |-> 350, RRt |-> 80] }

PVals == {k * PStep : k \in 0..MaxP} \cup {35, 250, 1200}

GivenPairs ==
    { [Ptt |-> Prob(a * ThrStep), Pt |-> Prob(b * ThrStep)] :
        a \in 0..MaxThr, b \in 0..MaxThr }


(***************************************************************************)
(* Files.  A text file is the sequence of its lexical items.  A field      *)
(* item is one  key: value  pair; quoted says whether the key stands in    *)
(* double quotes ("id": as json writes it) or bare (id: as a JavaScript    *)
(* object literal has it).                                                 *)
(***************************************************************************)
NoFile == [missing |-> TRUE]

File(content) == [content |-> content]

Exists(file) == ~("missing" \in DOMAIN file)

Tok(t) == [t |-> t]

Field(key, quoted, kind, val) ==
    [t |-> "field", key |-> key, quoted |-> quoted, kind |-> kind, val |-> val]

\* float.__repr__: exponent notation below 1e-4; v counts units of 1/unit
ReprFloat(v, unit) ==
    IF v > 0 /\ v * 10^4 < unit
    THEN [mant |-> v, exp |-> TRUE]
    ELSE [mant |-> v, exp |-> FALSE]

\* float() of the run of digits and dots a number starts with
FloatOfDigits(num, unit) == IF num.exp THEN num.mant * unit ELSE num.mant

RECURSIVE Flatten(_)
Flatten(ss) == IF ss = <<>> THEN <<>> ELSE Head(ss) \o Flatten(Tail(ss))

\* json.dumps of one record, keys in insertion order
JsonRecord(rec) ==
    <<Tok("lbrace"),
      Field("id", TRUE, "str", rec.id),
      Field("pVTE", TRUE, "num", ReprFloat(rec.pVTE, ProbUnit)),
      Field("Tp", TRUE, "num", ReprFloat(rec.Tp, TpUnit)),
      Field("RRt", TRUE, "num", ReprFloat(rec.RRt, PctUnit)),
      Field("RRrx", TRUE, "num", ReprFloat(rec.RRrx, PctUnit)),
      Field("H_low", TRUE, "num", ReprFloat(rec.H_low, ProbUnit)),
      Field("H_high", TRUE, "num", ReprFloat(rec.H_high, ProbUnit)),
      Field("RRbleed", TRUE, "num", ReprFloat(rec.RRbleed, PctUnit)),
      Field("decimals", TRUE, "int", rec.decimals),
      Field("ashDecision", TRUE, "str", rec.ashDecision),
      Field("category", TRUE, "str", rec.category),
      Field("group", TRUE, "str", rec.group)>>
    \o (IF "bleedingRisk" \in DOMAIN rec
        THEN <<Field("bleedingRisk", TRUE, "str", rec.bleedingRisk)>>
        ELSE <<>>)
    \o (IF "isReversed" \in DOMAIN rec
        THEN <<Field("isReversed", TRUE, "bool", rec.isReversed)>>
        ELSE <<>>)
    \o <<Tok("rbrace")>>

\* json.dumps(recommendations, indent=4)
JsonDumps(recs) ==
    <<Tok("lbracket")>>
    \o Flatten([i \in 1..Len(recs) |->
                  JsonRecord(recs[i])
                  \o (IF i < Len(recs) THEN <<Tok("comma")>> ELSE <<>>)])
    \o <<Tok("rbracket")>>

\* js_content: header comment, 'const RECOMMENDATIONS = ', the dump, ';',
\* the export block
js_content(recs) ==
    <<Tok("comment"), Tok("decl")>> \o JsonDumps(recs)
        \o <<Tok("semi"), Tok("export")>>

(***************************************************************************)
(* The spreadsheet.  A cell is NaN or a text; pad says where the text has  *)
(* blanks around it ("", "lead" or "trail"), which str.strip() removes.    *)
(* A case text is the sequence of its characters.                          *)
(***************************************************************************)
NaN == [nan |-> TRUE]
NotNa(cell) == ~("nan" \in DOMAIN cell)
Cell(text) == [text |-> text, pad |-> ""]
Padded(text, pad) == [text |-> text, pad |-> pad]

GroupLabels == {"R1-R10", "R11-R14", "R15-R20", "R21-R23"}

\* s.startswith(prefix)
StartsWith(s, prefix) ==
    Len(prefix) <= Len(s) /\ SubSeq(s, 1, Len(prefix)) = prefix

\* part in s
Contains(s, part) ==
    \E i \in 1..(Len(s) - Len(part) + 1) : SubSeq(s, i, i + Len(part) - 1) = part

\* case.startswith('R'), the blanks of the cell counted
StartsWithR(cell) == cell.pad # "lead" /\ StartsWith(cell.text, <<"R">>)

ValidDecisions == {"NoRx", "Test", "Rx"}

(***************************************************************************)
(* generate_complete_data.py                                               *)
(***************************************************************************)
EmptyMap == [i \in {} |-> None]

MapSet(m, k, v) == [x \in DOMAIN m \cup {k} |-> IF x = k THEN v ELSE m[x]]

\* the loop over agreement_df.iterrows() that fills ash_decisions
RECURSIVE BuildAshDecisions(_, _)
BuildAshDecisions(rows, acc) ==
    IF rows = <<>> THEN acc
    ELSE LET row  == Head(rows)
             case == IF NotNa(row.case) THEN Cell(row.case.text) ELSE Cell(<<>>)
             ash  == IF NotNa(row.ash) THEN row.ash.text ELSE ""
         IN  BuildAshDecisions(Tail(rows),
                IF StartsWithR(case) /\ ash \in ValidDecisions
                THEN MapSet(acc, case.text, ash)
                ELSE acc)

(***************************************************************************)
(* verify_calculations.py: loading, comparing, reporting                   *)
(***************************************************************************)
\* a dict in insertion order: a sequence of [k, v] with distinct keys
DictKeys(d) == {d[i].k : i \in DOMAIN d}

DictGet(d, key) == d[CHOOSE i \in DOMAIN d : d[i].k = key].v

DictPut(d, key, val) ==
    IF key \in DictKeys(d)
    THEN [i \in DOMAIN d |-> IF d[i].k = key THEN [k |-> key, v |-> val] ELSE d[i]]
    ELSE Append(d, [k |-> key, v |-> val])

HeaderCases ==
    {Chars("Cases"), Chars("Total: 69"), <<>>, Chars("n"), Chars("%"),
     Chars("CASE"), Chars("nan")}

\* 'R1-R10' in case or ... : a group label occurs in the text
HasGroupLabel(text) == \E g \in GroupLabels : Contains(text, Chars(g))

\* the loop of load_excel_data over the rows of the Agreement sheet
RECURSIVE ExcelRows(_, _)
ExcelRows(rows, acc) ==
    IF rows = <<>> THEN acc
    ELSE LET row  == Head(rows)
             case == IF NotNa(row.case) THEN row.case ELSE Cell(<<>>)
             ash  == IF NotNa(row.ash) THEN row.ash ELSE Cell("")
             skip == \/ (case.pad = "" /\ case.text \in HeaderCases)
                     \/ HasGroupLabel(case.text)
         IN  ExcelRows(Tail(rows),
                IF ~skip /\ StartsWithR(case)
                     /\ ash.pad = "" /\ ash.text \in ValidDecisions
                THEN DictPut(acc, case.text,
                             [ash_decision |-> ash.text, pvte |-> row.pvte])
                ELSE acc)

\* load_excel_data: pd.read_excel raises when the file cannot be read
load_excel_data(file) ==
    IF ~Exists(file) THEN [raised |-> "FileNotFoundError"]
    ELSE [value |-> ExcelRows(file.content.Agreement, <<>>)]

\* key: "..."  or  key: number  with the key bare, as the pattern spells it
BareField(tok, key, kind) ==
    tok.t = "field" /\ tok.key = key /\ ~tok.quoted /\ tok.kind = kind

Min(S) == CHOOSE x \in S : \A y \in S : x <= y

\* rec_pattern.finditer(array_content): the matches from position from on
RECURSIVE FindRecs(_, _, _)
FindRecs(content, from, acc) ==
    LET ashAt(s) == {a \in (s + 2)..Len(content) :
                        BareField(content[a], "ashDecision", "str")}
        pvAt(a)  == {p \in (a + 1)..Len(content) :
                        BareField(content[p], "pVTE", "num")}
        starts   == {s \in from..(Len(content) - 1) :
                        /\ content[s].t = "lbrace"
                        /\ BareField(content[s + 1], "id", "str")
                        /\ \E a \in ashAt(s) : pvAt(a) # {}}
    IN  IF starts = {} THEN acc
        ELSE LET s == Min(starts)
                 a == Min(ashAt(s))
                 p == Min(pvAt(a))
             IN  FindRecs(content, p + 1,
                    DictPut(acc, content[s + 1].val,
                            [ash_decision |-> content[a].val,
                             pvte |-> FloatOfDigits(content[p].val, ProbUnit)]))

load_js_data(file) ==
    IF ~Exists(file) THEN [raised |-> "FileNotFoundError"]
    ELSE LET content == file.content
             closes(i) == {j \in (i + 2)..(Len(content) - 1) :
                             content[j].t = "rbracket" /\ content[j + 1].t = "semi"}
             opens == {i \in 1..(Len(content) - 1) :
                          /\ content[i].t = "decl" /\ content[i + 1].t = "lbracket"
                          /\ closes(i) # {}}
         IN  IF opens = {} THEN [raised |-> "ValueError"]
             ELSE LET i == Min(opens)
                      j == Min(closes(i))
                  IN  [value |-> FindRecs(SubSeq(content, i + 2, j - 1), 1, <<>>)]

\* the Excel ids one js_id is compared with, in the order they are tried
ExcelMatches(xd, js_id) ==
    SelectSeq(<<js_id, js_id \o Chars(" low"), js_id \o Chars(" high")>>,
              LAMBDA id : id \in DictKeys(xd))

compare_recommendations(xd, jd) ==
    Flatten([i \in 1..Len(jd) |->
        LET js_id         == jd[i].k
            js_rec        == jd[i].v
            excel_matches == ExcelMatches(xd, js_id)
        IN  [m \in 1..Len(excel_matches) |->
                LET excel_rec == DictGet(xd, excel_matches[m])
                IN  [js_id |-> js_id, excel_id |-> excel_matches[m],
                     js_ash |-> js_rec.ash_decision,
                     excel_ash |-> excel_rec.ash_decision,
                     js_pvte |-> js_rec.pvte, excel_pvte |-> excel_rec.pvte,
                     ash_matches |-> js_rec.ash_decision = excel_rec.ash_decision]]])

\* sum(1 for r in results if r['ash_matches'])
NumMatches(rs) == Cardinality({i \in DOMAIN rs : rs[i].ash_matches})

\* a / b * 100, kept in tenths of a percent; Python raises on b = 0
PercentOf(a, b) ==
    IF b = 0 THEN ZeroDivisionError ELSE [value |-> (a * 1000) \div b]

\* match_rate = matches / total * 100 if total > 0 else 0
match_rate_Unguarded(m, t) == PercentOf(m, t)

match_rate(m, t) == IF t > 0 THEN PercentOf(m, t) ELSE [value |-> 0]

\* the accuracy main prints: matches/total*100 if total > 0, else 'N/A'
summary_accuracy(m, t) == IF t > 0 THEN PercentOf(m, t) ELSE NoDict

\* the values generate_html_report puts into the page
generate_html_report(rs, xd, jd) ==
    LET t    == Len(rs)
        m    == NumMatches(rs)
        rate == match_rate(m, t)
    IN  IF Raised(rate) THEN rate
        ELSE [total |-> t, matches |-> m, mismatches |-> t - m,
              match_rate |-> rate.value, rows |-> rs,
              n_js |-> Len(jd), n_excel |-> Len(xd)]

\* the groups generate_accuracy_chart sorts a js_id into; "skip" is continue
ChartGroup(rec_id) ==
    LET starts(ps) == \E p \in ps : StartsWith(rec_id, Chars(p))
    IN  IF starts({"R1"}) /\ Len(rec_id) <= 3 THEN "R1-R10"
        ELSE IF starts({"R2", "R3", "R4", "R5", "R6", "R7", "R8", "R9", "R10"})
                  /\ ~starts({"R21", "R22", "R23"}) THEN "R1-R10"
        ELSE IF starts({"R11", "R12", "R13", "R14"}) THEN "R11-R14"
        ELSE IF starts({"R15", "R16", "R17", "R18", "R19", "R20"}) THEN "R15-R20"
        ELSE IF starts({"R21", "R22", "R23"}) THEN "R21-R23"
        ELSE "skip"

\* the groups dict generate_accuracy_chart draws its bars from
generate_accuracy_chart(rs) ==
    [g \in GroupLabels |->
        [match |-> Cardinality({i \in DOMAIN rs :
                        ChartGroup(rs[i].js_id) = g /\ rs[i].ash_matches}),
         total |-> Cardinality({i \in DOMAIN rs : ChartGroup(rs[i].js_id) = g})]]

(***************************************************************************)
(* Inputs: the workbooks and the data.js files a run may find              *)
(***************************************************************************)
MaxRows == 2

Row(case, ash, pvte) == [case |-> case, ash |-> ash, pvte |-> pvte]

CandidateRows ==
    { Row(Cell(Chars("Cases")), NaN, None),
      Row(Cell(Chars("R1-R10")), Cell("Rx"), None),
      Row(Cell(Chars("R1 low")), Cell("Rx"), 10000),
      Row(Cell(Chars("R1 high")), Cell("Test"), 10000),
      Row(Cell(Chars("R1")), Cell("Rx"), None),
      Row(Cell(Chars("R13")), Cell("Test"), 1200),
      Row(Cell(Chars("R13")), Padded("Rx", "trail"), 1200) }

Sheets == UNION {[1..n -> CandidateRows] : n \in 0..MaxRows}

Workbooks == {NoFile} \cup {File([Agreement |-> s]) : s \in Sheets}

\* one record of a data.js written by hand as a JavaScript object literal,
\* the form rec_pattern reads; pvFirst puts pVTE before ashDecision
HandRecord(rec, pvFirst) ==
    <<Tok("lbrace"), Field("id", FALSE, "str", rec.id)>>
    \o (IF pvFirst
        THEN <<Field("pVTE", FALSE, "num", ReprFloat(rec.pVTE, ProbUnit)),
               Field("ashDecision", FALSE, "str", rec.ashDecision)>>
        ELSE <<Field("ashDecision", FALSE, "str", rec.ashDecision),
               Field("pVTE", FALSE, "num", ReprFloat(rec.pVTE, ProbUnit))>>)
    \o <<Field("Tp", FALSE, "num", ReprFloat(rec.Tp, TpUnit)),
         Field("RRt", FALSE, "num", ReprFloat(rec.RRt, PctUnit)),
         Field("RRrx", FALSE, "num", ReprFloat(rec.RRrx, PctUnit)),
         Field("H_low", FALSE, "num", ReprFloat(rec.H_low, ProbUnit)),
         Field("H_high", FALSE, "num", ReprFloat(rec.H_high, ProbUnit)),
         Field("RRbleed", FALSE, "num", ReprFloat(rec.RRbleed, PctUnit))>>
    \o (IF "isReversed" \in DOMAIN rec
        THEN <<Field("isReversed", FALSE, "bool", rec.isReversed)>>
        ELSE <<>>)
    \o <<Tok("rbrace")>>

HandJs(recs, pvFirst) ==
    <<Tok("comment"), Tok("decl"), Tok("lbracket")>>
    \o Flatten([i \in 1..Len(recs) |->
                  HandRecord(recs[i], pvFirst)
                  \o (IF i < Len(recs) THEN <<Tok("comma")>> ELSE <<>>)])
    \o <<Tok("rbracket"), Tok("semi")>>

WithAsh(rec, ash) == [rec EXCEPT !.ashDecision = ash]

RecR1low == R1R10Records(NoAsh)[1]
RecR1high == R1R10Records(NoAsh)[2]
RecR1 == [RecR1low EXCEPT !.id = Chars("R1")]
RecR13 == R11R14Records(NoAsh)[11]
RecR15 == R15R20Records(NoAsh)[1]

HandFiles ==
    { HandJs(<<WithAsh(RecR1low, "Rx"), WithAsh(RecR1high, "Rx")>>, FALSE),
      HandJs(<<WithAsh(RecR1, "Rx")>>, FALSE),
      HandJs(<<WithAsh(RecR13, "Test"), WithAsh(RecR15, "Rx")>>, FALSE),
      HandJs(<<WithAsh(RecR13, "Test"), WithAsh(RecR15, "Rx")>>, TRUE),
      HandJs(<<WithAsh(RecR13, "Unknown")>>, FALSE) }

DataJsFiles ==
    {NoFile, File(<<Tok("comment"), Tok("export")>>)}
        \cup {File(c) : c \in HandFiles}

(***************************************************************************)
(* The two scripts: the builder runs at most once; main() may run before   *)
(* it, on the data.js it finds, and after it, on the data.js it wrote      *)
(***************************************************************************)
NoRun ==
    /\ json_file = NoFile /\ report_html = NoFile /\ chart_png = NoFile
    /\ bpc = "idle" /\ ash_decisions = EmptyMap /\ recommendations = <<>>
    /\ bout = NoDict
    /\ vpc = "idle" /\ excel_data = <<>> /\ js_data = <<>> /\ results = <<>>
    /\ total = 0 /\ matches = 0 /\ vout = {}
    /\ xlsx = NoFile /\ data_js = NoFile

Init ==
    /\ dpc = "idle" /\ params = NoDict /\ is_reversed = FALSE /\ pVTE = 0
    /\ thresholds = NoDict /\ decision = None
    /\ xlsx \in Workbooks
    /\ data_js \in DataJsFiles
    /\ json_file = NoFile /\ report_html = NoFile /\ chart_png = NoFile
    /\ bpc = "idle" /\ ash_decisions = EmptyMap /\ recommendations = <<>>
    /\ bout = NoDict
    /\ vpc = "idle" /\ excel_data = <<>> /\ js_data = <<>> /\ results = <<>>
    /\ total = 0 /\ matches = 0 /\ vout = {}

Stopped(pc) == pc \in {"idle", "done", "crashed"}

\* ---- generate_complete_data.py, top to bottom
\* the script starts as a new process: what an earlier run of main() held in
\* memory is gone, the files stay
StartBuilder ==
    /\ bpc = "idle" /\ Stopped(vpc)
    /\ bpc' = "read"
    /\ vpc' = "idle" /\ excel_data' = <<>> /\ js_data' = <<>> /\ results' = <<>>
    /\ total' = 0 /\ matches' = 0 /\ vout' = {}
    /\ UNCHANGED <<dvars, files, ash_decisions, recommendations, bout>>

\* pd.read_excel of the four sheets; an unreadable workbook ends the script
ReadSheets ==
    /\ bpc = "read"
    /\ bpc' = IF Exists(xlsx) THEN "ash" ELSE "crashed"
    /\ UNCHANGED <<dvars, files, ash_decisions, recommendations, bout, vvars>>

AshDecisions ==
    /\ bpc = "ash"
    /\ ash_decisions' = BuildAshDecisions(xlsx.content.Agreement, EmptyMap)
    /\ bpc' = "r1_10"
    /\ UNCHANGED <<dvars, files, recommendations, bout, vvars>>

AppendR1R10 ==
    /\ bpc = "r1_10"
    /\ recommendations' = recommendations \o R1R10Records(ash_decisions)
    /\ bpc' = "r11_14"
    /\ UNCHANGED <<dvars, files, ash_decisions, bout, vvars>>

AppendR11R14 ==
    /\ bpc = "r11_14"
    /\ recommendations' = recommendations \o R11R14Records(ash_decisions)
    /\ bpc' = "r15_20"
    /\ UNCHANGED <<dvars, files, ash_decisions, bout, vvars>>

AppendR15R20 ==
    /\ bpc = "r15_20"
    /\ recommendations' = recommendations \o R15R20Records(ash_decisions)
    /\ bpc' = "r21_23"
    /\ UNCHANGED <<dvars, files, ash_decisions, bout, vvars>>

AppendR21R23 ==
    /\ bpc = "r21_23"
    /\ recommendations' = recommendations \o R21R23Records(ash_decisions)
    /\ bpc' = "count"
    /\ UNCHANGED <<dvars, files, ash_decisions, bout, vvars>>

\* "Verify count": the total and 'Expected: 69' are printed, the groups are
\* counted and the ids without a decision are listed; nothing is compared
VerifyCount ==
    /\ bpc = "count"
    /\ bout' = [total |-> Len(recommendations),
                groups |-> [g \in GroupLabels |->
                    Cardinality({i \in DOMAIN recommendations :
                                    recommendations[i].group = g})],
                missing |-> LET miss == SelectSeq(recommendations,
                                                  LAMBDA r : r.ashDecision = "Unknown")
                            IN  [i \in 1..Len(miss) |-> miss[i].id]]
    /\ bpc' = "save_json"
    /\ UNCHANGED <<dvars, files, ash_decisions, recommendations, vvars>>

SaveJson ==
    /\ bpc = "save_json"
    /\ json_file' = File(JsonDumps(recommendations))
    /\ bpc' = "gen_js"
    /\ UNCHANGED <<dvars, xlsx, data_js, report_html, chart_png,
                   ash_decisions, recommendations, bout, vvars>>

GenerateDataJs ==
    /\ bpc = "gen_js"
    /\ data_js' = File(js_content(recommendations))
    /\ bpc' = "done"
    /\ UNCHANGED <<dvars, xlsx, json_file, report_html, chart_png,
                   ash_decisions, recommendations, bout, vvars>>

\* ---- verify_calculations.py main()
StartVerifier ==
    /\ vpc = "idle" /\ Stopped(bpc)
    /\ vpc' = "load_excel"
    /\ UNCHANGED <<dvars, files, bvars, excel_data, js_data, results, total,
                   matches, vout>>

LoadExcel ==
    /\ vpc = "load_excel"
    /\ LET r == load_excel_data(xlsx)
       IN  IF Raised(r)
           THEN excel_data' = <<>> /\ vout' = vout \cup {"Error loading Excel"}
           ELSE excel_data' = r.value /\ vout' = vout
    /\ vpc' = "load_js"
    /\ UNCHANGED <<dvars, files, bvars, js_data, results, total, matches>>

LoadJs ==
    /\ vpc = "load_js"
    /\ LET r == load_js_data(data_js)
       IN  IF Raised(r)
           THEN js_data' = <<>> /\ vout' = vout \cup {"Error loading data.js"}
           ELSE js_data' = r.value /\ vout' = vout
    /\ vpc' = "compare"
    /\ UNCHANGED <<dvars, files, bvars, excel_data, results, total, matches>>

Compare ==
    /\ vpc = "compare"
    /\ results' = compare_recommendations(excel_data, js_data)
    /\ vpc' = "summary"
    /\ UNCHANGED <<dvars, files, bvars, excel_data, js_data, total, matches, vout>>

Summary ==
    /\ vpc = "summary"
    /\ total' = Len(results)
    /\ matches' = NumMatches(results)
    /\ vpc' = IF Raised(summary_accuracy(matches', total')) THEN "crashed"
              ELSE "report"
    /\ UNCHANGED <<dvars, files, bvars, excel_data, js_data, results, vout>>

Report ==
    /\ vpc = "report"
    /\ LET html_report == generate_html_report(results, excel_data, js_data)
       IN  IF Raised(html_report)
           THEN vpc' = "crashed" /\ report_html' = report_html
           ELSE vpc' = "chart" /\ report_html' = File(html_report)
    /\ UNCHANGED <<dvars, xlsx, data_js, json_file, chart_png, bvars,
                   excel_data, js_data, results, total, matches, vout>>

\* generate_accuracy_chart; without matplotlib the chart is skipped
Chart ==
    /\ vpc = "chart"
    /\ \E installed \in BOOLEAN :
          chart_png' = IF installed THEN File(generate_accuracy_chart(results))
                       ELSE chart_png
    /\ vpc' = "done"
    /\ UNCHANGED <<dvars, xlsx, data_js, json_file, report_html, bvars,
                   excel_data, js_data, results, total, matches, vout>>

BuilderStep ==
    \/ ReadSheets \/ AshDecisions \/ AppendR1R10 \/ AppendR11R14
    \/ AppendR15R20 \/ AppendR21R23 \/ VerifyCount \/ SaveJson \/ GenerateDataJs

MainStep == LoadExcel \/ LoadJs \/ Compare \/ Summary \/ Report \/ Chart

Next == StartBuilder \/ BuilderStep \/ StartVerifier \/ MainStep

Spec == Init /\ [][Next]_vars

(***************************************************************************)
(* calculate_thresholds and determine_decision called on their own         *)
(***************************************************************************)
InitDecide ==
    /\ NoRun
    /\ pVTE \in PVals
    /\ decision = None
    /\ \/ /\ dpc = "start"
          /\ \/ params \in {ParamsOf(r) : r \in StandardRecords}
                /\ is_reversed = FALSE
             \/ params \in {ParamsOf(r) : r \in ReversedRecords}
                /\ is_reversed = TRUE
             \/ params \in GridParams \cup SparseParams
                /\ is_reversed \in BOOLEAN
          /\ thresholds = NoDict
       \/ /\ dpc = "thr"
          /\ params = NoDict
          /\ is_reversed \in BOOLEAN
          /\ thresholds \in GivenPairs

CalculateThresholds ==
    /\ dpc = "start"
    /\ thresholds' = calculate_thresholds(params, is_reversed)
    /\ dpc' = IF Raised(thresholds') THEN "raised" ELSE "thr"
    /\ UNCHANGED <<params, is_reversed, pVTE, decision, files, bvars, vvars>>

DetermineDecision ==
    /\ dpc = "thr"
    /\ decision' = determine_decision(Prob(pVTE), thresholds, is_reversed)
    /\ dpc' = "done"
    /\ UNCHANGED <<params, is_reversed, pVTE, thresholds, files, bvars, vvars>>

NextDecide == CalculateThresholds \/ DetermineDecision

SpecDecide == InitDecide /\ [][NextDecide]_vars

(***************************************************************************)
(* Properties of determine_decision and calculate_thresholds               *)
(***************************************************************************)
Decided == dpc = "done"
Computed == dpc \in {"thr", "done"} /\ ~("none" \in DOMAIN params)

pv == Prob(pVTE)
BelowPtt == RatLess(pv, thresholds.Ptt)
AbovePtt == RatLess(thresholds.Ptt, pv)
BelowPt == RatLess(pv, thresholds.Pt)
AbovePt == RatLess(thresholds.Pt, pv)

\* the parameter values calculate_thresholds read
pRV == Get(params, "RV", 1)
pRRbleed == Get(params, "RRbleed", 217)
pH == Get(params, "H", 500)
pRRrx == Get(params, "RRrx", 15)
pTp == Get(params, "Tp", 3800)
pRRt == Get(params, "RRt", 165)

\* C1 as stated: in the standard model determine_decision returns NoRx
\* whenever pVTE < Ptt, Rx whenever pVTE > Pt, and Test in every other case,
\* for every threshold pair.
C1_AsStated ==
    (Decided /\ ~is_reversed) =>
        /\ BelowPtt => decision = "NoRx"
        /\ AbovePt => decision = "Rx"
        /\ (~BelowPtt /\ ~AbovePt) => decision = "Test"

\* C1 amended: in the standard model determine_decision returns NoRx whenever
\* pVTE < Ptt, Rx whenever pVTE > Pt and pVTE is not below Ptt, and Test in
\* every other case: the NoRx test comes first, which decides the pairs with
\* Pt < Ptt.
C1_StandardRule ==
    (Decided /\ ~is_reversed) =>
        /\ BelowPtt => decision = "NoRx"
        /\ (AbovePt /\ ~BelowPtt) => decision = "Rx"
        /\ (~BelowPtt /\ ~AbovePt) => decision = "Test"

\* a standard decision made where both pVTE < Ptt and pVTE > Pt hold
C1_Witness ==
    Decided /\ ~is_reversed /\ BelowPtt /\ AbovePt /\ decision = "NoRx"

\* C2 as stated: in the reversed model determine_decision returns Rx whenever
\* pVTE < Pt, NoRx whenever pVTE > Ptt, and Test in every other case, for
\* every threshold pair, those of the R15-R20 records included.
C2_AsStated ==
    (Decided /\ is_reversed) =>
        /\ BelowPt => decision = "Rx"
        /\ AbovePtt => decision = "NoRx"
        /\ (~BelowPt /\ ~AbovePtt) => decision = "Test"

\* C2 amended: in the reversed model determine_decision returns Rx whenever
\* pVTE < Pt, NoRx whenever pVTE > Ptt and pVTE is not below Pt, and Test in
\* every other case.
C2_ReversedRule ==
    (Decided /\ is_reversed) =>
        /\ BelowPt => decision = "Rx"
        /\ (AbovePtt /\ ~BelowPt) => decision = "NoRx"
        /\ (~BelowPt /\ ~AbovePtt) => decision = "Test"

\* a reversed decision on the thresholds of an R15-R20 record where both
\* pVTE < Pt and pVTE > Ptt hold
C2_Witness ==
    /\ Decided /\ is_reversed /\ BelowPt /\ AbovePtt /\ decision = "Rx"
    /\ params \in {ParamsOf(r) : r \in ReversedRecords}

ValidCommon == pRV > 0 /\ pH >= 0 /\ pTp >= 0 /\ pTp <= TpUnit /\ pRRt > 0

\* C3 as stated: in the reversed model Pt <= Ptt for every valid tuple with
\* RRrx > 1, the 21 R15-R20 records included.
C3_AsStated ==
    (Computed /\ is_reversed /\ ValidCommon /\ pRRrx > PctUnit) =>
        RatLeq(thresholds.Pt, thresholds.Ptt)

\* C3 amended: in the reversed model Pt <= Ptt for every valid tuple with
\* RRrx > 1 and RRt >= 1; of the 21 R15-R20 records this covers all but R20c
\* and R20d (RRt = 0.8), for which Ptt < Pt.
C3_ReversedOrder ==
    /\ (Computed /\ is_reversed /\ ValidCommon /\ pRRrx > PctUnit
            /\ pRRt >= PctUnit) =>
          RatLeq(thresholds.Pt, thresholds.Ptt)
    /\ (Computed /\ is_reversed
            /\ params \in {ParamsOf(r) : r \in ReversedRecords}
            /\ pRRt < PctUnit) =>
          RatLess(thresholds.Ptt, thresholds.Pt)

\* the thresholds of an R15-R20 record with RRt >= 1, Pt strictly below Ptt
C3_Witness ==
    /\ Computed /\ is_reversed /\ pRRrx > PctUnit /\ pRRt >= PctUnit
    /\ params \in {ParamsOf(r) : r \in ReversedRecords}
    /\ RatLess(thresholds.Pt, thresholds.Ptt)

ValidStandard == ValidCommon /\ pRRrx > 0 /\ pRRrx < PctUnit /\ pRRbleed > PctUnit

\* C4 as stated: in the standard model Ptt <= Pt for every valid tuple with
\* 0 < RRrx < 1 and RRbleed > 1.
C4_AsStated ==
    (Computed /\ ~is_reversed /\ ValidStandard) =>
        RatLeq(thresholds.Ptt, thresholds.Pt)

\* C4 amended: in the standard model Ptt <= Pt for every valid tuple with
\* 0 < RRrx < 1, RRbleed > 1 and RRt >= 1, which covers the 48 standard
\* records of the catalog.
C4_StandardOrder ==
    (Computed /\ ~is_reversed /\ ValidStandard /\ pRRt >= PctUnit) =>
        RatLeq(thresholds.Ptt, thresholds.Pt)

\* the thresholds of a standard catalog record, Ptt strictly below Pt
C4_Witness ==
    /\ Computed /\ ~is_reversed /\ ValidStandard /\ pRRt >= PctUnit
    /\ params \in {ParamsOf(r) : r \in StandardRecords}
    /\ RatLess(thresholds.Ptt, thresholds.Pt)

(***************************************************************************)
(* Properties of the verifier and of the builder's output                  *)
(***************************************************************************)
Compared == vpc \in {"summary", "report", "chart", "done", "crashed"}

JsIds == DictKeys(js_data)
ExcelIds == DictKeys(excel_data)
ResultsFor(id) == {j \in DOMAIN results : results[j].js_id = id}

\* the record data.js stores under an id: its fields, whatever their order
\* and whether their keys are quoted
StoredFields(id) ==
    LET c     == data_js.content
        s     == CHOOSE s \in 1..(Len(c) - 1) :
                    /\ c[s].t = "lbrace" /\ c[s + 1].t = "field"
                    /\ c[s + 1].key = "id" /\ c[s + 1].val = id
        e     == Min({e \in s..Len(c) : c[e].t = "rbrace"})
    IN  {c[i] : i \in (s + 1)..(e - 1)}

StoredNum(id, key) == (CHOOSE f \in StoredFields(id) : f.key = key).val.mant

\* the decision the stored parameters of a record give
Recomputed(id) ==
    LET rev == \E f \in StoredFields(id) : f.key = "isReversed" /\ f.val
        p   == [RRbleed |-> StoredNum(id, "RRbleed"), H |-> StoredNum(id, "H_low"),
                RRrx |-> StoredNum(id, "RRrx"), Tp |-> StoredNum(id, "Tp"),
                RRt |-> StoredNum(id, "RRt")]
    IN  determine_decision(Prob(StoredNum(id, "pVTE")),
                           calculate_thresholds(p, rev), rev)

\* C5: a comparison result is flagged as a match only if the decision
\* recomputed from the record's stored parameters equals both the record's
\* ashDecision and the reference decision.
C5_RecomputedMatch ==
    Compared =>
        \A j \in DOMAIN results :
            results[j].ash_matches =>
                /\ Recomputed(results[j].js_id) = results[j].js_ash
                /\ Recomputed(results[j].js_id) = results[j].excel_ash

\* C6: a built record whose id the reference mapping lacks gets ashDecision
\* "Unknown", and a catalog record whose id the loaded reference lacks is in
\* the results of compare_recommendations, with its match flag false.
C6_UnknownReported ==
    /\ bpc \in {"count", "save_json", "gen_js", "done"} =>
          \A i \in DOMAIN recommendations :
              recommendations[i].id \notin DOMAIN ash_decisions =>
                  recommendations[i].ashDecision = "Unknown"
    /\ (Compared /\ Exists(xlsx)) =>
          \A id \in JsIds :
              id \notin ExcelIds =>
                  /\ ResultsFor(id) # {}
                  /\ \A j \in ResultsFor(id) : ~results[j].ash_matches

Variants == {Chars(" low"), Chars(" high")}

\* C7: when the reference holds a bare id and the catalog holds the id
\* followed by ' low' or ' high', compare_recommendations has a result for
\* that catalog record: no catalog record whose bare base id is in the
\* reference is skipped.
C7_VariantsCompared ==
    Compared =>
        \A base \in ExcelIds : \A v \in Variants :
            (base \o v) \in JsIds => ResultsFor(base \o v) # {}

\* main() has loaded the data.js the builder wrote
LoadedBack ==
    bpc = "done" /\ vpc \in {"compare", "summary", "report", "chart", "done", "crashed"}

\* C8: load_js_data applied to the data.js the builder wrote returns one
\* entry per built record, with the record's id, pVTE and ashDecision.
C8_RoundTrip ==
    LoadedBack =>
        /\ Len(js_data) = Len(recommendations)
        /\ \A i \in DOMAIN recommendations :
              \E j \in DOMAIN js_data :
                  /\ js_data[j].k = recommendations[i].id
                  /\ js_data[j].v.pvte = recommendations[i].pVTE
                  /\ js_data[j].v.ash_decision = recommendations[i].ashDecision

\* both loads of this run of main() are over
Loaded == vpc \in {"compare", "summary", "report", "chart", "done", "crashed"}

HasArray(file) ==
    \E i \in 1..(Len(file.content) - 1) :
        /\ file.content[i].t = "decl" /\ file.content[i + 1].t = "lbracket"

ExcelLoadFails == ~Exists(xlsx)
JsLoadFails == ~Exists(data_js) \/ ~HasArray(data_js)
LoadFailed == Loaded /\ (ExcelLoadFails \/ JsLoadFails)

\* C10: when loading the reference or the catalog fails, main() still runs
\* to its end: no step raises (the only way main() stops early), the load
\* error is printed, there are zero comparisons and zero matches, the match
\* rate is computed without dividing by zero, and once the report step is
\* over verification_report.html exists and shows the zeros.
C10_LoadFailure ==
    LoadFailed =>
        /\ vpc # "crashed"
        /\ ExcelLoadFails => "Error loading Excel" \in vout
        /\ JsLoadFails => "Error loading data.js" \in vout
        /\ vpc \in {"summary", "report", "chart", "done"} => results = <<>>
        /\ vpc \in {"report", "chart", "done"} => total = 0 /\ matches = 0
        /\ vpc \in {"chart", "done"} =>
              /\ Exists(report_html)
              /\ report_html.content.total = 0
              /\ report_html.content.matches = 0
              /\ report_html.content.match_rate = 0

\* the reference loaded, the catalog did not, and main() ended with a report
C10_Witness ==
    /\ vpc = "done" /\ LoadFailed
    /\ ~ExcelLoadFails /\ excel_data # <<>> /\ JsLoadFails
    /\ Exists(report_html) /\ report_html.content.total = 0


(***************************************************************************)
(* Properties of the record list the builder assembles                     *)
(***************************************************************************)
\* the four append loops are over: recommendations is the complete list
Built == bpc \in {"count", "save_json", "gen_js", "done"}

InGroup(g) == {i \in DOMAIN recommendations : recommendations[i].group = g}

\* the records a base id of r1_10_base yields with one bleeding-risk suffix
VariantsOf(base_id, risk_level) ==
    {i \in InGroup("R1-R10") :
        recommendations[i].id = Chars(base_id) \o <<" ">> \o Chars(risk_level)}

\* C11: the built list has exactly 69 records, 20 / 16 / 21 / 12 by group;
\* each base id of R1-R10 yields exactly two records, a low variant with
\* hazard 0.005 and a high variant with hazard 0.015.
C11_Partition ==
    Built =>
        /\ Len(recommendations) = 69
        /\ \A i \in DOMAIN recommendations : recommendations[i].group \in GroupLabels
        /\ Cardinality(InGroup("R1-R10")) = 20
        /\ Cardinality(InGroup("R11-R14")) = 16
        /\ Cardinality(InGroup("R15-R20")) = 21
        /\ Cardinality(InGroup("R21-R23")) = 12
        /\ \A b \in DOMAIN r1_10_base :
              LET low  == VariantsOf(r1_10_base[b].base_id, "low")
                  high == VariantsOf(r1_10_base[b].base_id, "high")
              IN  /\ Cardinality(low) = 1 /\ Cardinality(high) = 1
                  /\ \A i \in low :
                        /\ recommendations[i].H_low = 5 * (ProbUnit \div 1000)
                        /\ recommendations[i].H_high = 5 * (ProbUnit \div 1000)
                        /\ recommendations[i].bleedingRisk = "low"
                  /\ \A i \in high :
                        /\ recommendations[i].H_low = 15 * (ProbUnit \div 1000)
                        /\ recommendations[i].H_high = 15 * (ProbUnit \div 1000)
                        /\ recommendations[i].bleedingRisk = "high"
                  /\ {i \in InGroup("R1-R10") :
                         StartsWith(recommendations[i].id,
                                    Chars(r1_10_base[b].base_id) \o <<" ">>)}
                        = low \cup high

\* the builder has run to its end and printed the total and the group counts
C11_Witness ==
    /\ bpc = "done" /\ Exists(data_js) /\ Exists(json_file)
    /\ bout.total = 69
    /\ bout.groups["R1-R10"] = 20 /\ bout.groups["R15-R20"] = 21
    /\ recommendations[1].id = Chars("R1 low")
    /\ recommendations[2].id = Chars("R1 high")

Ids == {recommendations[i].id : i \in DOMAIN recommendations}

\* C12: the ids of the 69 built records are pairwise distinct.
C12_DistinctIds ==
    Built =>
        \A i, j \in DOMAIN recommendations :
            i # j => recommendations[i].id # recommendations[j].id

\* the complete list is about to be saved: 69 records, 69 different ids
C12_Witness ==
    /\ bpc = "save_json"
    /\ Len(recommendations) = 69 /\ Cardinality(Ids) = 69
    /\ {Chars("R20a"), Chars("R20b"), Chars("R1 low"), Chars("R1 high")} \subseteq Ids

\* the decimals a family gives a pVTE; the finer tier strictly below the gate
DecimalsOf(group, p) ==
    CASE group = "R1-R10"  -> IF p < ProbUnit \div 10 THEN 2 ELSE 1
      [] group = "R11-R14" -> IF p < ProbUnit \div 100 THEN 3 ELSE 2
      [] group = "R15-R20" -> 4
      [] group = "R21-R23" -> IF p < ProbUnit \div 100 THEN 4 ELSE 3

\* C13: the decimals of every built record is determined by its family and
\* its pVTE alone, with an exclusive boundary: R1-R10 has 2 when pVTE < 0.1
\* and 1 otherwise (1 at exactly 0.1), R11-R14 has 3 when pVTE < 0.01 and 2
\* otherwise, R21-R23 has 4 when pVTE < 0.01 and 3 otherwise, R15-R20 has 4.
C13_Decimals ==
    Built =>
        \A i \in DOMAIN recommendations :
            recommendations[i].decimals
                = DecimalsOf(recommendations[i].group, recommendations[i].pVTE)

\* the built list has a record at the gate itself (R1: pVTE 0.1, decimals
\* 1) and records of both tiers in each family that has two
C13_Witness ==
    /\ Built
    /\ \E i \in InGroup("R1-R10") :
          recommendations[i].pVTE = ProbUnit \div 10 /\ recommendations[i].decimals = 1
    /\ \E i \in InGroup("R1-R10") : recommendations[i].decimals = 2
    /\ \A g \in {"R11-R14", "R21-R23"} :
          \E i, j \in InGroup(g) :
              recommendations[i].decimals = recommendations[j].decimals + 1
    /\ \E i \in InGroup("R15-R20") : recommendations[i].decimals = 4

\* the 69 records of the catalog, whatever the reference holds
Catalog ==
    Range(R1R10Records(NoAsh)) \cup Range(R11R14Records(NoAsh))
        \cup Range(R15R20Records(NoAsh)) \cup Range(R21R23Records(NoAsh))

CatalogIds == {r.id : r \in Catalog}

\* the family of a catalog id: the group of the record that has the id
FamilyOf(id) == (CHOOSE r \in Catalog : r.id = id).group

\* this run of main() has drawn the chart from its results
ChartDrawn == vpc = "done" /\ bpc = "idle" /\ Exists(chart_png)

\* C14: generate_accuracy_chart counts every comparison result in exactly
\* one group, the family of the result's catalog id: for results whose ids
\* are catalog ids the total of each group is the number of results of that
\* family, and the totals sum to the number of results.
C14_ChartFamilies ==
    (ChartDrawn /\ \A j \in DOMAIN results : results[j].js_id \in CatalogIds) =>
        LET groups == chart_png.content
        IN  /\ \A g \in GroupLabels :
                  groups[g].total
                      = Cardinality({j \in DOMAIN results :
                                        FamilyOf(results[j].js_id) = g})
            /\ groups["R1-R10"].total + groups["R11-R14"].total
                  + groups["R15-R20"].total + groups["R21-R23"].total
                  = Len(results)
====
